---- MODULE Spec2Model ----
(***************************************************************************)
(* mrun: a supervisor for a two-process pipeline "producer | consumer".    *)
(* The model follows src/main.go: the restart loop of main, the signal     *)
(* listener goroutine, the two watcher goroutines (watch_producer starts   *)
(* watch_consumer), the forked children's descriptor setup up to exec, and *)
(* the kernel objects the code acts on (descriptor tables, the pipe, the   *)
(* signals).                                                               *)
(***************************************************************************)
EXTENDS Integers, Sequences, FiniteSets, TLC

\* ---------------------------------------------------------------- bounds
MaxGen == 2     \* pipeline generations the model lets main create
MaxWrite == 1   \* items a producer writes to its standard output
MaxFd == 6      \* highest descriptor number of a process's descriptor table

\* ------------------------------------------------------ program constants
Restart == 0    \* Policy iota
NoRestart == 1
Stdin == 0      \* syscall.Stdin
Stdout == 1     \* syscall.Stdout
Stderr == 2     \* os.Stderr

Gens == 1..MaxGen
Roles == {"producer", "consumer"}
Fds == 0..MaxFd

\* An open file: <<g, "r">> / <<g, "w">> are the ends of generation g's pipe,
\* NoFile is a closed descriptor slot, StdFile the inherited standard streams.
NoFile == <<0, "none">>
StdFile == <<0, "std">>
ReadEnd(g) == <<g, "r">>
WriteEnd(g) == <<g, "w">>

VARIABLES
    policy,        \* Restart or NoRestart, fixed at startup
    shutdown_asap, \* the shutdown flag
    sigs,          \* signals buffered in the channel sigs (capacity 1)
    listener,      \* the signal goroutine: "waiting" or "done"
    mainpc,        \* main's position in the loop body
    gen,           \* number of pipes main has created (the current generation)
    exitStatus,    \* -1 while the supervising process runs, else its exit status
    exitPath,      \* how it exited: "break", "policy", "pipefail", "forkfail"
    sfd,           \* the supervising process's descriptor table
    pipefds,       \* per generation, the pair <<readfd, writefd>> pipe() returned
    pid1, pid2,    \* main's locals of the current iteration
    wpc,           \* wpc[g][r]: position of generation g's watcher for role r
    cst,           \* cst[g][r]: state of the child process
    cfd,           \* cfd[g][r]: the child's descriptor table
    cpid,          \* cpid[g][r]: the child's process id (0 before the fork)
    csig,          \* csig[g][r]: a SIGTERM sent by the supervisor reached the child
    cexit,         \* cexit[g][r]: why the child exited: "self", "eof", "term", "execfail"
    cfail,         \* cfail[g][r]: descriptor operations that failed in the child
    nonblock,      \* open files with O_NONBLOCK set
    buf,           \* buf[g]: bytes in generation g's pipe
    written,       \* written[g]: number of items the producer has written
    received,      \* received[g]: items the consumer has read from its stdin
    nextpid,       \* next process id the kernel hands out
    closed,        \* closed[g]: ends of pipe g main has closed (lines 224-225)
    kills,         \* <<g, pid>>: main called Kill(pid, SIGTERM) in generation g
    recvd,         \* recvd[g]: the <<role, value>> main received on comms, in order
    shutdownAt     \* when the listener set the flag: -1 never, 0 between generations,
                   \* g while generation g was running

vars == <<policy, shutdown_asap, sigs, listener, mainpc, gen, exitStatus, exitPath,
          sfd, pipefds, pid1, pid2, wpc, cst, cfd, cpid, csig, cexit, cfail,
          nonblock, buf, written, received, nextpid, closed, kills, recvd,
          shutdownAt>>

supVars == <<mainpc, gen, exitStatus, exitPath, sfd, pipefds, pid1, pid2, closed,
             kills, recvd>>
sigVars == <<shutdown_asap, sigs, listener, shutdownAt>>
childVars == <<cst, cfd, cpid, csig, cexit, cfail, nextpid>>
pipeVars == <<nonblock, buf, written, received>>

\* ---------------------------------------------------------------- helpers
\* The system is followed for as long as the supervising process runs.
Alive == exitStatus = -1

LaunchSteps == {"setup", "exec"}
Live(g, r) == cst[g][r] \in LaunchSteps \cup {"running"}

Holds(tab, file) == \E fd \in Fds : tab[fd] = file

\* Some process still has the open file `file` in its descriptor table.
IsOpen(file) ==
    \/ Holds(sfd, file)
    \/ \E g \in Gens, r \in Roles : Live(g, r) /\ Holds(cfd[g][r], file)

\* main's positions from the creation of a generation's pipe to its decision.
RunningPcs == {"spawn", "recv1", "recv2", "closeR", "closeW", "recv3", "kill1",
               "kill2", "decide"}

AllClosed == [fd \in Fds |-> NoFile]

FreeFds(tab) == {fd \in Fds : tab[fd] = NoFile}
Lowest(S) == CHOOSE x \in S : \A y \in S : x <= y

\* The descriptor of this role's unused end and of the end it binds.
UnusedFd(g, r) == IF r = "producer" THEN pipefds[g][1] ELSE pipefds[g][2]
BoundFd(g, r) == IF r = "producer" THEN pipefds[g][2] ELSE pipefds[g][1]
StdStream(r) == IF r = "producer" THEN Stdout ELSE Stdin

Init ==
    /\ policy \in {Restart, NoRestart}
    /\ shutdown_asap = FALSE
    /\ sigs = 0
    /\ listener = "waiting"
    /\ mainpc = "check"
    /\ gen = 0
    /\ exitStatus = -1
    /\ exitPath = "none"
    /\ sfd = [fd \in Fds |-> IF fd <= Stderr THEN StdFile ELSE NoFile]
    /\ pipefds = [g \in Gens |-> <<0, 0>>]
    /\ pid1 = 0
    /\ pid2 = 0
    /\ wpc = [g \in Gens |-> [r \in Roles |-> "idle"]]
    /\ cst = [g \in Gens |-> [r \in Roles |-> "unborn"]]
    /\ cfd = [g \in Gens |-> [r \in Roles |-> AllClosed]]
    /\ cpid = [g \in Gens |-> [r \in Roles |-> 0]]
    /\ csig = [g \in Gens |-> [r \in Roles |-> FALSE]]
    /\ cexit = [g \in Gens |-> [r \in Roles |-> "none"]]
    /\ cfail = [g \in Gens |-> [r \in Roles |-> {}]]
    /\ nonblock = {}
    /\ buf = [g \in Gens |-> <<>>]
    /\ written = [g \in Gens |-> 0]
    /\ received = [g \in Gens |-> <<>>]
    /\ nextpid = 1
    /\ closed = [g \in Gens |-> {}]
    /\ kills = {}
    /\ recvd = [g \in Gens |-> <<>>]
    /\ shutdownAt = -1

\* ------------------------------------------------ signals (lines 172-192)
\* The kernel delivers SIGHUP, SIGINT or SIGTERM: signal.Notify does a
\* non-blocking send on sigs, whose buffer holds one signal. Signals from
\* outside are followed while the listener can still receive one.
Notified(n) == IF n = 0 THEN 1 ELSE n

ExtSignal ==
    /\ Alive
    /\ listener = "waiting"
    /\ sigs' = Notified(sigs)
    /\ UNCHANGED <<policy, shutdown_asap, listener, shutdownAt, supVars, wpc,
                   childVars, pipeVars>>

\* The goroutine of lines 177-192: one receive, one write of the flag, return.
\* (The write races with main's read at line 195; both are single word-sized
\* accesses, so the read sees the flag as set or as not yet set.)
FlagAfterSignal == TRUE
\* The goroutine has no loop around its receive: it ends after one signal.
ListenerLoops == "waiting"
ListenerAfter == "done"

Listen ==
    /\ Alive
    /\ listener = "waiting"
    /\ sigs > 0
    /\ sigs' = sigs - 1
    /\ shutdown_asap' = FlagAfterSignal
    /\ listener' = ListenerAfter
    /\ shutdownAt' = IF mainpc \in RunningPcs THEN gen ELSE 0
    /\ UNCHANGED <<policy, supVars, wpc, childVars, pipeVars>>

\* ------------------------------------------------- main (lines 194-236)
ExitBreak == 0   \* main returns after the break of line 196
ExitFail == 1    \* os.Exit(1)

SupExit(status, path) ==
    /\ exitStatus' = status
    /\ exitPath' = path
    /\ mainpc' = "exited"
    /\ sfd' = AllClosed
    /\ UNCHANGED <<gen, pipefds, pid1, pid2, closed, kills, recvd>>

\* Line 195: if shutdown_asap { break }
NeverBreak(flag) == FALSE

ShouldBreak(flag) == flag

MainCheck ==
    /\ Alive
    /\ mainpc = "check"
    /\ IF ShouldBreak(shutdown_asap)
         THEN SupExit(ExitBreak, "break")
         ELSE /\ mainpc' = "pipe"
              /\ UNCHANGED <<gen, exitStatus, exitPath, sfd, pipefds, pid1, pid2,
                             closed, kills, recvd>>
    /\ UNCHANGED <<policy, sigVars, wpc, childVars, pipeVars>>

\* Lines 198-210: a fresh channel and a fresh pipe; pipe() takes the two lowest
\* free descriptors, or fails.
PipeTable(tab, g) ==
    LET rfd == Lowest(FreeFds(tab))
        wfd == Lowest(FreeFds(tab) \ {rfd})
    IN  [tab EXCEPT ![rfd] = ReadEnd(g), ![wfd] = WriteEnd(g)]

FdOf(tab, file) == CHOOSE fd \in Fds : tab[fd] = file

MainPipe ==
    /\ Alive
    /\ mainpc = "pipe"
    /\ \/ /\ gen < MaxGen
          /\ Cardinality(FreeFds(sfd)) >= 2
          /\ gen' = gen + 1
          /\ sfd' = PipeTable(sfd, gen + 1)
          /\ pipefds' = [pipefds EXCEPT ![gen + 1] =
                            <<FdOf(sfd', ReadEnd(gen + 1)), FdOf(sfd', WriteEnd(gen + 1))>>]
          /\ pid1' = 0
          /\ pid2' = 0
          /\ mainpc' = "spawn"
          /\ UNCHANGED <<exitStatus, exitPath, closed, kills, recvd>>
       \/ SupExit(ExitFail, "pipefail")
    /\ UNCHANGED <<policy, sigVars, wpc, childVars, pipeVars>>

\* Line 212: go watch_producer(pipefds, comms)
MainSpawn ==
    /\ Alive
    /\ mainpc = "spawn"
    /\ wpc' = [wpc EXCEPT ![gen]["producer"] = "fork"]
    /\ mainpc' = "recv1"
    /\ UNCHANGED <<policy, sigVars, gen, exitStatus, exitPath, sfd, pipefds, pid1,
                   pid2, closed, kills, recvd, childVars, pipeVars>>

\* What follows each receive: pid1 (216), pid2 (219), then the two closes and
\* the receive of line 228, then the kills.
AfterRecvNoThird(pc) ==
    CASE pc = "recv1" -> "recv2"
      [] pc = "recv2" -> "kill1"
      [] pc = "recv3" -> "kill1"

AfterRecv(pc) ==
    CASE pc = "recv1" -> "recv2"
      [] pc = "recv2" -> "closeR"
      [] pc = "recv3" -> "kill1"

\* Lines 216, 219, 228: the three receives on comms. v comes from the watcher
\* of role r that is sending on this generation's channel.
MainRecv(r, v) ==
    /\ mainpc \in {"recv1", "recv2", "recv3"}
    /\ pid1' = IF mainpc = "recv1" THEN v ELSE pid1
    /\ pid2' = IF mainpc = "recv2" THEN v ELSE pid2
    /\ mainpc' = AfterRecv(mainpc)
    /\ recvd' = [recvd EXCEPT ![gen] = Append(@, <<r, v>>)]
    /\ UNCHANGED <<gen, exitStatus, exitPath, sfd, pipefds, closed, kills>>

\* Lines 224-225: syscall.Close(readfd); syscall.Close(writefd)
CloseFd(tab, fd) == [tab EXCEPT ![fd] = NoFile]

SupCloseSkipped(tab, fd) == tab

SupClose(tab, fd) == CloseFd(tab, fd)

MainClose(end, next) ==
    /\ Alive
    /\ sfd' = SupClose(sfd, IF end = "r" THEN pipefds[gen][1] ELSE pipefds[gen][2])
    /\ closed' = [closed EXCEPT ![gen] = @ \cup {end}]
    /\ mainpc' = next
    /\ UNCHANGED <<policy, sigVars, gen, exitStatus, exitPath, pipefds, pid1, pid2,
                   kills, recvd, wpc, childVars, pipeVars>>

MainCloseR == mainpc = "closeR" /\ MainClose("r", "closeW")
MainCloseW == mainpc = "closeW" /\ MainClose("w", "recv3")

\* Lines 230-231: syscall.Kill(pid, SIGTERM). Process id 0 addresses the
\* caller's process group: the supervising process itself and its children.
KillTargets(pid) ==
    {c \in Gens \X Roles : Live(c[1], c[2]) /\ (pid = 0 \/ cpid[c[1]][c[2]] = pid)}

MainKill(pid, next) ==
    /\ Alive
    /\ kills' = kills \cup {<<gen, pid>>}
    /\ csig' = [g \in Gens |-> [r \in Roles |->
                   csig[g][r] \/ <<g, r>> \in KillTargets(pid)]]
    /\ sigs' = IF pid = 0 THEN Notified(sigs) ELSE sigs
    /\ mainpc' = next
    /\ UNCHANGED <<policy, shutdown_asap, listener, shutdownAt, gen, exitStatus,
                   exitPath, sfd, pipefds, pid1, pid2, closed, recvd, wpc, cst, cfd,
                   cpid, cexit, cfail, nextpid, pipeVars>>

MainKill1 == mainpc = "kill1" /\ MainKill(pid1, "kill2")
MainKill2 == mainpc = "kill2" /\ MainKill(pid2, "decide")

\* Lines 233-235: if policy != Restart { os.Exit(1) }
RestartAlways(pol) == TRUE

RestartAfter(pol) == pol = Restart

MainDecide ==
    /\ Alive
    /\ mainpc = "decide"
    /\ IF RestartAfter(policy)
         THEN /\ mainpc' = "check"
              /\ UNCHANGED <<gen, exitStatus, exitPath, sfd, pipefds, pid1, pid2,
                             closed, kills, recvd>>
         ELSE SupExit(ExitFail, "policy")
    /\ UNCHANGED <<policy, sigVars, wpc, childVars, pipeVars>>

\* ------------------------- watchers (watch_producer 77-123, watch_consumer 125-169)
\* Lines 83-87 / 131-135: fork. The child starts with a copy of the supervising
\* process's descriptor table; a failed fork ends the whole program.
Fork(g, r) ==
    /\ Alive
    /\ wpc[g][r] = "fork"
    /\ \/ /\ cst' = [cst EXCEPT ![g][r] = "setup"]
          /\ cfd' = [cfd EXCEPT ![g][r] = sfd]
          /\ cpid' = [cpid EXCEPT ![g][r] = nextpid]
          /\ nextpid' = nextpid + 1
          /\ wpc' = [wpc EXCEPT ![g][r] = "sendpid"]
          /\ UNCHANGED <<supVars, csig, cexit, cfail>>
       \/ /\ SupExit(ExitFail, "forkfail")
          /\ UNCHANGED <<wpc, childVars>>
    /\ UNCHANGED <<policy, sigVars, pipeVars>>

\* A send on the unbuffered channel of generation g completes only together
\* with a receive of main, which reads that channel only during generation g.
OnSharedChannel(g) == TRUE
OnMainsChannel(g) == g = gen

Send(g, r, v, next) ==
    /\ Alive
    /\ OnMainsChannel(g)
    /\ MainRecv(r, v)
    /\ wpc' = [wpc EXCEPT ![g][r] = next]
    /\ UNCHANGED <<policy, sigVars, childVars, pipeVars>>

\* Line 113: comms <- pid1      line 160: comms <- pid2
AfterSendPidNoWait(r) == IF r = "producer" THEN "spawn" ELSE "senddone"
AfterSendPid(r) == IF r = "producer" THEN "spawn" ELSE "wait"

SendPid(g, r) ==
    /\ wpc[g][r] = "sendpid"
    /\ Send(g, r, cpid[g][r], AfterSendPid(r))

\* Line 114: go watch_consumer(pipefds, comms)
SpawnConsumer(g) ==
    /\ Alive
    /\ wpc[g]["producer"] = "spawn"
    /\ wpc' = [wpc EXCEPT ![g] = [producer |-> "wait", consumer |-> "fork"]]
    /\ UNCHANGED <<policy, sigVars, supVars, childVars, pipeVars>>

\* Lines 116-118 / 162-164: Wait4 on the child's pid returns once it has exited,
\* and reaps it.
Wait4(g, r) ==
    /\ Alive
    /\ wpc[g][r] = "wait"
    /\ cst[g][r] = "zombie"
    /\ cst' = [cst EXCEPT ![g][r] = "reaped"]
    /\ wpc' = [wpc EXCEPT ![g][r] = "senddone"]
    /\ UNCHANGED <<policy, sigVars, supVars, cfd, cpid, csig, cexit, cfail, nextpid,
                   pipeVars>>

\* Lines 120-121 / 166-167: comms <- 0; return
Done == 0

SendDone(g, r) ==
    /\ wpc[g][r] = "senddone"
    /\ Send(g, r, Done, "returned")

\* ------------------------------ the forked child (lines 89-111 / 137-158)
\* The child is single-threaded and shares no memory with its parent; the
\* four descriptor calls of lines 93-101 / 141-149 act on its own table only
\* and are taken as one step. Every return value of Close, FcntlInt and Dup2
\* is discarded: a failed call is recorded in cfail and the next line runs.
Dup2Fd(tab, old, new) == IF tab[old] = NoFile THEN tab ELSE [tab EXCEPT ![new] = tab[old]]

\* Line 93: syscall.Close(readfd)            line 141: syscall.Close(writefd)
AfterCloseUnused(tab, g, r) == CloseFd(tab, UnusedFd(g, r))
\* Line 100: syscall.Dup2(writefd, Stdout)   line 148: syscall.Dup2(readfd, Stdin)
AfterDup2(tab, g, r) == Dup2Fd(AfterCloseUnused(tab, g, r), BoundFd(g, r), StdStream(r))
\* Line 101: syscall.Close(writefd)          line 149: syscall.Close(readfd)
AfterCloseOrig(tab, g, r) == CloseFd(AfterDup2(tab, g, r), BoundFd(g, r))

\* The calls that fail with EBADF: the descriptor they name is not open.
SetupFailures(tab, g, r) ==
    (IF tab[UnusedFd(g, r)] = NoFile THEN {"closeUnused"} ELSE {})
    \cup (IF AfterCloseUnused(tab, g, r)[BoundFd(g, r)] = NoFile
            THEN {"setNonblock", "dup2"} ELSE {})
    \cup (IF AfterDup2(tab, g, r)[BoundFd(g, r)] = NoFile THEN {"closeOrig"} ELSE {})

\* Lines 96-97 / 144-145: F_SETFL flags|O_NONBLOCK. The flag belongs to the
\* open file, so every holder of that pipe end sees it.
NonblockAfter(tab, g, r) ==
    LET file == AfterCloseUnused(tab, g, r)[BoundFd(g, r)]
    IN  IF file = NoFile THEN nonblock ELSE nonblock \cup {file}

ChildSetup(g, r) ==
    /\ Alive
    /\ cst[g][r] = "setup"
    /\ cst' = [cst EXCEPT ![g][r] = "exec"]
    /\ cfd' = [cfd EXCEPT ![g][r] = AfterCloseOrig(@, g, r)]
    /\ cfail' = [cfail EXCEPT ![g][r] = SetupFailures(cfd[g][r], g, r)]
    /\ nonblock' = NonblockAfter(cfd[g][r], g, r)
    /\ UNCHANGED <<policy, sigVars, supVars, wpc, cpid, csig, cexit, nextpid, buf,
                   written, received>>

\* A process that exits closes all its descriptors and stays a zombie until
\* it is waited for.
Exits(g, r, cause) ==
    /\ cst' = [cst EXCEPT ![g][r] = "zombie"]
    /\ cexit' = [cexit EXCEPT ![g][r] = cause]
    /\ cfd' = [cfd EXCEPT ![g][r] = AllClosed]
    /\ UNCHANGED <<policy, sigVars, supVars, wpc, cpid, csig, cfail, nextpid,
                   nonblock>>

\* Lines 107-111 / 154-158: exec replaces the image, or fails and the child
\* exits with status 1.
ChildExec(g, r) ==
    /\ Alive
    /\ cst[g][r] = "exec"
    /\ \/ /\ cst' = [cst EXCEPT ![g][r] = "running"]
          /\ UNCHANGED <<policy, sigVars, supVars, wpc, cfd, cpid, csig, cexit, cfail,
                         nextpid, nonblock>>
       \/ Exits(g, r, "execfail")
    /\ UNCHANGED <<buf, written, received>>

\* ------------------------------------- the exec'd programs and the pipe
\* The producer writes the items 1, 2, ... to its standard output.
ProducerWrite(g) ==
    /\ Alive
    /\ cst[g]["producer"] = "running"
    /\ cfd[g]["producer"][Stdout] = WriteEnd(g)
    /\ IsOpen(ReadEnd(g))
    /\ written[g] < MaxWrite
    /\ written' = [written EXCEPT ![g] = @ + 1]
    /\ buf' = [buf EXCEPT ![g] = Append(@, written[g] + 1)]
    /\ UNCHANGED <<policy, sigVars, supVars, wpc, childVars, nonblock, received>>

\* The consumer reads the next item from its standard input.
ConsumerRead(g) ==
    /\ Alive
    /\ cst[g]["consumer"] = "running"
    /\ cfd[g]["consumer"][Stdin] = ReadEnd(g)
    /\ buf[g] # <<>>
    /\ received' = [received EXCEPT ![g] = Append(@, Head(buf[g]))]
    /\ buf' = [buf EXCEPT ![g] = Tail(@)]
    /\ UNCHANGED <<policy, sigVars, supVars, wpc, childVars, nonblock, written>>

\* A read of an empty pipe none of whose write ends is open returns EOF, and
\* the consumer exits 0.
ConsumerEof(g) ==
    /\ Alive
    /\ cst[g]["consumer"] = "running"
    /\ cfd[g]["consumer"][Stdin] = ReadEnd(g)
    /\ buf[g] = <<>>
    /\ ~IsOpen(WriteEnd(g))
    /\ Exits(g, "consumer", "eof")
    /\ UNCHANGED <<buf, written, received>>

\* A running program may exit on its own at any time.
ChildExit(g, r) ==
    /\ Alive
    /\ cst[g][r] = "running"
    /\ Exits(g, r, "self")
    /\ UNCHANGED <<buf, written, received>>

\* A running program that was sent SIGTERM may be terminated by it.
ChildTerm(g, r) ==
    /\ Alive
    /\ cst[g][r] = "running"
    /\ csig[g][r]
    /\ Exits(g, r, "term")
    /\ UNCHANGED <<buf, written, received>>

\* ------------------------------------------------------------------ Next
Next ==
    \/ ExtSignal
    \/ Listen
    \/ MainCheck
    \/ MainPipe
    \/ MainSpawn
    \/ MainCloseR
    \/ MainCloseW
    \/ MainKill1
    \/ MainKill2
    \/ MainDecide
    \/ \E g \in Gens, r \in Roles : Fork(g, r)
    \/ \E g \in Gens, r \in Roles : SendPid(g, r)
    \/ \E g \in Gens : SpawnConsumer(g)
    \/ \E g \in Gens, r \in Roles : Wait4(g, r)
    \/ \E g \in Gens, r \in Roles : SendDone(g, r)
    \/ \E g \in Gens, r \in Roles : ChildSetup(g, r)
    \/ \E g \in Gens, r \in Roles : ChildExec(g, r)
    \/ \E g \in Gens : ProducerWrite(g)
    \/ \E g \in Gens : ConsumerRead(g)
    \/ \E g \in Gens : ConsumerEof(g)
    \/ \E g \in Gens, r \in Roles : ChildExit(g, r)
    \/ \E g \in Gens, r \in Roles : ChildTerm(g, r)

Spec == Init /\ [][Next]_vars

\* The program started with --norestart (lines 72-74).
InitNoRestart == Init /\ policy = NoRestart
SpecNoRestart == InitNoRestart /\ [][Next]_vars

\* The runs of the program followed through FairGens generations, under either
\* policy: main's loop is not taken into a further pipe() (line 200).
FairGens == 1
MainPipeFair == MainPipe /\ gen' <= FairGens

\* Scheduling. The Go runtime runs every runnable goroutine: main, the signal
\* goroutine and each watcher take their next step when it stays possible, and
\* a send completes when main stays at a receive of that channel. The kernel
\* runs each forked child through its launch code up to exec. What the two
\* programs do after exec (write, exit, react to SIGTERM), what arrives from
\* outside and whether pipe() fails is not forced, except that a consumer with
\* input or end of file waiting on its standard input reads it.
MainPipeOk == MainPipeFair /\ mainpc' = "spawn"
MainStep ==
    \/ MainCheck \/ MainPipeOk \/ MainSpawn \/ MainCloseR \/ MainCloseW
    \/ MainKill1 \/ MainKill2 \/ MainDecide
WatcherStep(g, r) ==
    \/ Fork(g, r)
    \/ (r = "producer" /\ SpawnConsumer(g))
    \/ Wait4(g, r)
WatcherSend(g, r) == SendPid(g, r) \/ SendDone(g, r)
LaunchStep(g, r) == ChildSetup(g, r) \/ ChildExec(g, r)
ReaderStep(g) == ConsumerRead(g) \/ ConsumerEof(g)

Fairness ==
    /\ WF_vars(MainStep)
    /\ WF_vars(Listen)
    /\ \A g \in Gens, r \in Roles :
           /\ WF_vars(WatcherStep(g, r))
           /\ WF_vars(WatcherSend(g, r))
           /\ WF_vars(LaunchStep(g, r))
    /\ \A g \in Gens : WF_vars(ReaderStep(g))

NextFair ==
    \/ ExtSignal
    \/ Listen
    \/ MainCheck
    \/ MainPipeFair
    \/ MainSpawn
    \/ MainCloseR
    \/ MainCloseW
    \/ MainKill1
    \/ MainKill2
    \/ MainDecide
    \/ \E g \in Gens, r \in Roles : Fork(g, r)
    \/ \E g \in Gens, r \in Roles : SendPid(g, r)
    \/ \E g \in Gens : SpawnConsumer(g)
    \/ \E g \in Gens, r \in Roles : Wait4(g, r)
    \/ \E g \in Gens, r \in Roles : SendDone(g, r)
    \/ \E g \in Gens, r \in Roles : ChildSetup(g, r)
    \/ \E g \in Gens, r \in Roles : ChildExec(g, r)
    \/ \E g \in Gens : ProducerWrite(g)
    \/ \E g \in Gens : ConsumerRead(g)
    \/ \E g \in Gens : ConsumerEof(g)
    \/ \E g \in Gens, r \in Roles : ChildExit(g, r)
    \/ \E g \in Gens, r \in Roles : ChildTerm(g, r)
FairSpec == Init /\ [][NextFair]_vars /\ Fairness

\* ================================================================ claims
Forked(g, r) == cst[g][r] # "unborn"
Exited(g, r) == cst[g][r] \in {"zombie", "reaped"}
Executed(g, r) == cst[g][r] = "running" \/ cexit[g][r] \in {"self", "eof", "term"}
GotDone(g) == \E i \in 1..Len(recvd[g]) : recvd[g][i][2] = Done
KilledIn(g) == {k[2] : k \in {x \in kills : x[1] = g}}
OneTo(n) == [i \in 1..n |-> i]

\* C1: main closes its copies of a generation's pipe ends only after both the
\* producer child and the consumer child of that generation have been forked
\* (so no child of the generation is forked after the close).
C1_CloseAfterBothForks ==
    \A g \in Gens : closed[g] # {} => Forked(g, "producer") /\ Forked(g, "consumer")

\* C2: once main has received the first exit handoff of a generation and gone
\* through its teardown, it has sent SIGTERM to the process id of the producer
\* and to the process id of the consumer of that generation, before it decides
\* between a new generation and termination.
C2_MutualTeardown ==
    mainpc = "decide" =>
        /\ cpid[gen]["producer"] \in KilledIn(gen)
        /\ cpid[gen]["consumer"] \in KilledIn(gen)

\* C7: in a generation whose two children set up their descriptors and ran
\* their programs, once the producer has exited and the consumer has stopped
\* reading (at end of file, or terminated by the supervisor's SIGTERM), the
\* consumer has received everything the producer wrote, in order.
C7_PipeVisibility ==
    \A g \in Gens :
        ( /\ cfail[g]["producer"] = {} /\ cfail[g]["consumer"] = {}
          /\ Executed(g, "producer") /\ Exited(g, "producer")
          /\ Exited(g, "consumer") /\ cexit[g]["consumer"] \in {"eof", "term"} )
        => received[g] = OneTo(written[g])

\* C8: at most one producer process and at most one consumer process are live,
\* and when main starts a generation every child of the earlier generations
\* has exited and been reaped.
C8_OneLivePerRole ==
    /\ \A r \in Roles : Cardinality({g \in Gens : Live(g, r)}) <= 1
    /\ mainpc = "spawn" => \A g \in 1..(gen - 1), r \in Roles : cst[g][r] = "reaped"

\* C9: when the supervising program has terminated, by whatever path, or has
\* just begun a new generation, every child forked before has exited or has
\* been sent SIGTERM by the supervisor.
C9_NoOrphan ==
    /\ mainpc = "exited" => \A g \in Gens, r \in Roles : Live(g, r) => csig[g][r]
    /\ mainpc = "spawn" =>
           \A g \in 1..(gen - 1), r \in Roles : Live(g, r) => csig[g][r]

\* C10: a child in which a descriptor operation of the launch sequence failed
\* never executes its target program.
C10_SetupErrorFatal ==
    \A g \in Gens, r \in Roles : cfail[g][r] # {} => ~Executed(g, r)

\* C3 (as stated): under NoRestart, when the program has terminated through
\* main's loop, exactly one generation has run: one pipe, one producer fork,
\* one consumer fork, whenever the shutdown signal arrived.
C3_ExactlyOneGeneration ==
    (policy = NoRestart /\ exitPath \in {"break", "policy"}) =>
        gen = 1 /\ Forked(1, "producer") /\ Forked(1, "consumer")

\* C3 (amended): under NoRestart at most one generation is ever started; the
\* policy exit of line 234 is reached after exactly one pipe, one producer
\* fork and one consumer fork and a received exit handoff; the break of line
\* 196 is taken only with the flag set and before any generation.
C3_AtMostOneGeneration ==
    policy = NoRestart =>
        /\ gen <= 1
        /\ \A g \in Gens : g > 1 => ~Forked(g, "producer") /\ ~Forked(g, "consumer")
        /\ exitPath = "policy" =>
               gen = 1 /\ Forked(1, "producer") /\ Forked(1, "consumer") /\ GotDone(1)
        /\ exitPath = "break" => gen = 0 /\ shutdown_asap

\* The consumer exits first, and the program leaves through the policy exit.
C3_Witness ==
    /\ policy = NoRestart
    /\ exitPath = "policy"
    /\ recvd[1][3] = <<"consumer", Done>>
    /\ shutdown_asap

\* C4: the shutdown flag set while a generation is running ends nothing early:
\* SIGTERM is sent in a generation, and main leaves its loop after a generation,
\* only once a watcher's exit handoff of that generation has been received;
\* the break is taken only after both kills of the teardown; and no pipe is
\* created (hence no child forked) after the generation the flag was set in.
C4_DeferredShutdown ==
    /\ \A g \in Gens : KilledIn(g) # {} => GotDone(g)
    /\ (exitPath \in {"break", "policy"} /\ gen >= 1) =>
           GotDone(gen) /\ Cardinality(KilledIn(gen)) = 2
    /\ shutdownAt >= 1 =>
           /\ gen = shutdownAt
           /\ \A g \in Gens : g > shutdownAt => ~Forked(g, "producer") /\ ~Forked(g, "consumer")

\* Under Restart, the flag was set while generation 1 was running; the
\* program stopped only after that generation's teardown (both kills).
C4_Witness ==
    /\ policy = Restart
    /\ shutdownAt = 1
    /\ exitPath = "break"
    /\ gen = 1
    /\ Cardinality(KilledIn(1)) = 2

\* A descriptor table holds ends of no pipe but that of generation g.
OwnPipeOnly(tab, g) == \A fd \in Fds : tab[fd][1] \in {0, g}

C5_Isolation ==
    /\ OwnPipeOnly(sfd, gen)
    /\ \A g \in Gens, r \in Roles : OwnPipeOnly(cfd[g][r], g)

C5_RestartStep ==
    /\ (mainpc = "decide" /\ mainpc' # mainpc /\ policy = Restart) => mainpc' = "check"
    /\ (mainpc = "check" /\ mainpc' # mainpc /\ ~shutdown_asap) => mainpc' = "pipe"
    /\ (mainpc = "pipe" /\ mainpc' # mainpc) =>
           \/ exitPath' = "pipefail"
           \/ /\ mainpc' = "spawn"
              /\ gen' = gen + 1
              /\ ~IsOpen(ReadEnd(gen')) /\ ~IsOpen(WriteEnd(gen'))
              /\ Holds(sfd', ReadEnd(gen')) /\ Holds(sfd', WriteEnd(gen'))
              /\ buf'[gen'] = <<>>

\* C5: under Restart, main goes from the end of a generation to the loop-top
\* check and, with the flag not set, on to pipe creation; a created pipe is
\* fresh (no process holds an end of it, nothing is buffered in it) and main
\* holds both its ends; and no process ever holds an end of the pipe of a
\* generation other than its own (main: other than the current one).
C5_RestartFreshPipe == [](C5_Isolation) /\ [][C5_RestartStep]_vars

\* A second generation runs while a child of the first still holds its end of
\* the first pipe.
C5_Witness ==
    /\ policy = Restart
    /\ gen = 2
    /\ Holds(cfd[1]["consumer"], ReadEnd(1))
    /\ Holds(cfd[2]["consumer"], ReadEnd(2))
    /\ Holds(cfd[2]["producer"], WriteEnd(2))

\* C6 (as stated): once a generation has ended, the program never terminates
\* with exit status 0.
C6_NeverExitZero == (mainpc = "exited" /\ gen >= 1) => exitStatus # 0

\* What main's steps at the end of a generation and at the loop top do.
C6_DecisionStep ==
    /\ (mainpc = "decide" /\ mainpc' # mainpc) =>
           IF policy = Restart
             THEN mainpc' = "check" /\ exitStatus' = -1
             ELSE mainpc' = "exited" /\ exitStatus' = 1 /\ exitPath' = "policy"
    /\ (mainpc = "check" /\ mainpc' # mainpc) =>
           IF shutdown_asap
             THEN mainpc' = "exited" /\ exitStatus' = 0 /\ exitPath' = "break"
             ELSE mainpc' = "pipe" /\ exitStatus' = -1

\* C6 (amended): after a generation main returns to the loop top exactly when
\* the policy is Restart, and otherwise exits with status 1; at the loop top it
\* goes on to pipe creation exactly when the flag is not set, and otherwise
\* leaves the loop and returns from main: exit status 0.
C6_RestartDecision == [][C6_DecisionStep]_vars

\* After a generation under Restart the flag is set and the program exits 0.
C6_Witness == policy = Restart /\ gen >= 1 /\ exitPath = "break" /\ exitStatus = 0

\* ------------------------------------------------------ claims C11..C20
Values(seq) == {seq[i] : i \in 1..Len(seq)}
ChildPids(g) == {cpid[g][r] : r \in Roles} \ {0}
\* Lines 116-118 / 162-164: the watcher has logged its child's exit.
Logged(g, r) == wpc[g][r] \in {"senddone", "returned"}

\* C11: when the exec of a child failed and its watcher's done value was
\* received by main, main's teardown of that generation is the normal one: its
\* two kills address the process ids of the generation's two children (and
\* nothing else, so the supervising process does not signal itself).
C11_ExecFailureHandled ==
    \A g \in Gens, r \in Roles :
        ( /\ cexit[g][r] = "execfail"
          /\ <<r, Done>> \in Values(recvd[g])
          /\ Cardinality(KilledIn(g)) = 2 )
        => KilledIn(g) = {cpid[g]["producer"], cpid[g]["consumer"]}

\* C12: when the program has terminated through main's loop, the exit of the
\* producer and the exit of the consumer of every generation that ran have
\* been logged by their watchers.
C12_BothExitsLogged ==
    exitPath \in {"break", "policy"} =>
        \A g \in 1..gen, r \in Roles : Logged(g, r)

\* A step in which the flag is written: the listener takes a signal off sigs
\* (line 178) and assigns the flag (line 190), or the flag's value changes.
C13_WriteStep == sigs' < sigs \/ shutdown_asap' # shutdown_asap
C13_ListenerWrite ==
    C13_WriteStep =>
        /\ listener = "waiting"
        /\ ~shutdown_asap /\ shutdown_asap'
        /\ mainpc' = mainpc
C13_MainReadsAtTop ==
    /\ (exitPath' = "break" /\ exitPath # "break") => (mainpc = "check" /\ shutdown_asap)
    /\ (mainpc = "check" /\ mainpc' = "pipe") => ~shutdown_asap
    /\ (mainpc # "check" /\ mainpc' # mainpc) => exitPath' # "break"

\* C13: the shutdown flag is false as long as the listener has not handled a
\* signal; every write of it is a step of the listener, from false to true,
\* and happens at most once; no step resets it; main's only use of it is the
\* test at the top of the loop, which alone decides between break and a new
\* generation.
C13_FlagDiscipline ==
    /\ [](listener = "waiting" => ~shutdown_asap)
    /\ [][C13_ListenerWrite]_vars
    /\ [][shutdown_asap => shutdown_asap']_vars
    /\ [][C13_MainReadsAtTop]_vars
C13_Witness ==
    /\ shutdown_asap /\ listener = "done" /\ shutdownAt = 1
    /\ exitPath = "break" /\ gen = 1

\* C14: of the values main receives in a generation, the first is the process
\* id of the producer, the second the process id of the consumer, and the
\* third a done value.
C14_HandoffProtocol ==
    \A g \in Gens :
        /\ Len(recvd[g]) >= 1 => recvd[g][1] = <<"producer", cpid[g]["producer"]>>
        /\ Len(recvd[g]) >= 2 => recvd[g][2] = <<"consumer", cpid[g]["consumer"]>>
        /\ Len(recvd[g]) >= 3 => recvd[g][3][2] = Done
        /\ \A i \in 1..Len(recvd[g]) : i <= 2 => recvd[g][i][2] # Done

\* C15: a child about to execute its program has the pipe end of its role as
\* its standard stream (the producer the write end on stdout, the consumer
\* the read end on stdin), holds no descriptor of the other end, and no longer
\* holds the original descriptors.
C15_DescriptorsAtExec ==
    \A g \in Gens :
        /\ cst[g]["producer"] = "exec" =>
               /\ cfd[g]["producer"][Stdout] = WriteEnd(g)
               /\ ~Holds(cfd[g]["producer"], ReadEnd(g))
               /\ \A fd \in Fds \ {Stdout} : cfd[g]["producer"][fd] # WriteEnd(g)
        /\ cst[g]["consumer"] = "exec" =>
               /\ cfd[g]["consumer"][Stdin] = ReadEnd(g)
               /\ ~Holds(cfd[g]["consumer"], WriteEnd(g))
               /\ \A fd \in Fds \ {Stdin} : cfd[g]["consumer"][fd] # ReadEnd(g)

\* C18: every SIGTERM main sends in a generation is addressed to the process
\* id of a child forked in that generation, never to process id 0.
C18_SignalTargets ==
    \A k \in kills : k[2] # 0 /\ k[2] \in ChildPids(k[1])

\* C19: under the Restart policy, while the supervising process runs, a
\* watcher that is about to send its done value can still complete the send:
\* main is in that watcher's generation and has a receive on its channel ahead.
C19_NoBlockedWatcher ==
    (Alive /\ policy = Restart) =>
        \A g \in Gens, r \in Roles :
            wpc[g][r] = "senddone" =>
                g = gen /\ mainpc \in {"recv1", "recv2", "closeR", "closeW", "recv3"}

\* Number of sends the watcher of role r in generation g has completed.
SendsCompleted(g, r) ==
    CASE wpc[g][r] \in {"idle", "fork", "sendpid"} -> 0
      [] wpc[g][r] \in {"spawn", "wait", "senddone"} -> 1
      [] wpc[g][r] = "returned" -> 2
C20_SendStep ==
    \A g \in Gens, r \in Roles :
        (wpc[g][r] \in {"sendpid", "senddone"} /\ wpc'[g][r] # wpc[g][r]) =>
            /\ gen = g /\ gen' = g
            /\ Len(recvd'[g]) = Len(recvd[g]) + 1
            /\ recvd'[g][Len(recvd'[g])][1] = r

\* C20: a send of a watcher of generation g completes only while main runs
\* generation g, as a receive of that generation: the values main has received
\* in a generation are exactly those its own two watchers have handed over,
\* and a watcher left over from an earlier generation hands over nothing.
C20_ChannelPerGeneration ==
    /\ [](\A g \in Gens :
             Len(recvd[g]) = SendsCompleted(g, "producer") + SendsCompleted(g, "consumer"))
    /\ [][C20_SendStep]_vars
C20_Witness ==
    /\ gen = 2 /\ mainpc = "recv3"
    /\ \E r \in Roles : wpc[1][r] = "senddone" /\ cst[1][r] = "reaped"

\* A watcher that has not yet reached its Wait4 and is not held up for good:
\* it is inside Wait4, about to start the consumer watcher, or sending its
\* child's pid while main still has a receive of this generation ahead.
C17_WaitAhead(g, r) ==
    \/ wpc[g][r] = "wait"
    \/ r = "producer" /\ wpc[g][r] = "spawn"
    \/ /\ wpc[g][r] = "sendpid"
       /\ g = gen
       /\ mainpc \in {"recv1", "recv2", "closeR", "closeW", "recv3"}
C17_ReapStep ==
    \A g \in Gens, r \in Roles :
        (cst'[g][r] = "reaped" /\ cst[g][r] # "reaped") =>
            /\ cst[g][r] = "zombie"
            /\ wpc[g][r] = "wait" /\ wpc'[g][r] = "senddone"

C16_ProducerGone(g) == Exited(g, "producer") /\ Live(g, "consumer")
C16_Reading(g) ==
    /\ C16_ProducerGone(g)
    /\ cst[g]["consumer"] = "running"
    /\ cfd[g]["consumer"][Stdin] = ReadEnd(g)
\* Who has let go of the write end by when: the consumer child before exec,
\* main once it is past its two closes (or in a later generation).
C16_ClosedWhenDue ==
    \A g \in Gens :
        /\ cst[g]["consumer"] \in {"exec", "running"} =>
               ~Holds(cfd[g]["consumer"], WriteEnd(g))
        /\ (g < gen \/ (g = gen /\ mainpc \in {"recv3", "kill1", "kill2", "decide"})) =>
               ~Holds(sfd, WriteEnd(g))
        /\ ( /\ Exited(g, "producer")
             /\ cst[g]["consumer"] \in {"exec", "running"}
             /\ closed[g] = {"r", "w"} ) => ~IsOpen(WriteEnd(g))
C16_EofStep ==
    \A g \in Gens :
        (cexit'[g]["consumer"] = "eof" /\ cexit[g]["consumer"] # "eof") =>
            /\ ~IsOpen(WriteEnd(g))
            /\ buf[g] = <<>>
            /\ cfd[g]["consumer"][Stdin] = ReadEnd(g)

\* C16: once the producer of a generation has exited while its consumer is
\* live, every descriptor of the pipe's write end gets closed (the consumer
\* child's copy before its exec, main's copy by its close after the second
\* receive), unless the supervising process ends first; the consumer gets end
\* of file only from an empty pipe with no write end open; and a consumer
\* reading the pipe on its standard input then comes to its exit.
C16_EofDelivery ==
    /\ [](C16_ClosedWhenDue)
    /\ [][C16_EofStep]_vars
    /\ \A g \in Gens : C16_ProducerGone(g) ~> (~IsOpen(WriteEnd(g)) \/ ~Alive)
    /\ \A g \in Gens : C16_Reading(g) ~> (Exited(g, "consumer") \/ ~Alive)
C16_Witness ==
    /\ Alive /\ policy = Restart
    /\ cexit[1]["producer"] = "self" /\ cexit[1]["consumer"] = "eof"
    /\ received[1] = OneTo(MaxWrite)
    /\ recvd[1] = <<<<"producer", cpid[1]["producer"]>>,
                    <<"consumer", cpid[1]["consumer"]>>, <<"producer", Done>>>>

====
